---- MODULE Spec2Model ----
(***************************************************************************)
(* A model of b2/transferer: Transferer.download_file_from_url, its        *)
(* validation, and the download strategies it dispatches to.               *)
(*                                                                         *)
(* Byte contents of the object are described, not enumerated: a body is    *)
(* [offset, len, corrupt] -- the span of the object it carries, how many   *)
(* bytes of it are delivered, and whether a byte was altered in transit.   *)
(***************************************************************************)
EXTENDS Integers, Naturals, Sequences, FiniteSets, TLC

VARIABLES
    pc,              \* position inside download_file_from_url
    range_,          \* argument range_: NoRange or <<a, b>>
    size,            \* true size of the object held by the service
    response,        \* the name `response` as currently bound
    open_responses,  \* serials of responses whose `with` block is not yet left
    metadata,        \* the name `metadata` as currently bound
    content_length,  \* local content_length (line 77)
    mod_time,        \* where mod_time_millis was resolved from
    file,            \* the destination scope returned by make_file_context
    chunk_num,       \* local chunk_num
    chunk_range_,    \* local chunk_range_ (start, end)
    outcome,         \* how the call ended: return value or raised exception
    requests,        \* history: every request issued, in order
    selected,        \* history: <<chunk_num, strategy>> for every dispatch
    attempts,        \* history: every window response handed to the loop body
    validated,       \* history: chunk_num of every attempt that passed validation
    p_pc,            \* multi-stream download of one window: its position
    p_window,        \* its window: first buffer slot and number of slots
    p_streams,       \* the number of sub-range workers launched
    p_written,       \* per worker, the buffers it has streamed so far
    p_file,          \* the shared destination: cursor and contents by slot
    p_completed,     \* the workers in the order they completed
    p_result,        \* (bytes_read, actual_sha1) once combined
    s_pc,            \* SimpleDownloader.download on one response: its position
    s_input,         \* the buffers response.iter_content yields, and the cursor at entry
    s_body,          \* the buffers not yet yielded
    s_file,          \* the destination: cursor, contents by offset, writes made
    s_bytes_read,    \* local bytes_read
    s_digest,        \* local digest
    s_result         \* the pair returned

tvars == <<pc, range_, size, response, open_responses, metadata, content_length,
           mod_time, file, chunk_num, chunk_range_, outcome, requests, selected,
           attempts, validated>>

pvars == <<p_pc, p_window, p_streams, p_written, p_file, p_completed, p_result>>

svars == <<s_pc, s_input, s_body, s_file, s_bytes_read, s_digest, s_result>>

vars == <<tvars, pvars, svars>>

----------------------------------------------------------------------------
(* Program constants *)

DEFAULT_MAX_STREAMS == 8

DEFAULT_MIN_PART_SIZE == 100 * 1024 * 1024

DEFAULT_CHUNK_SIZE == 8192

chunk_size == 1024 * 1024

----------------------------------------------------------------------------
(* Bounds of the model *)

\* the largest whole number of windows of the ordinary object sizes
MaxChunks == 2

\* a declared length a misbehaving service answers with
BadLength == 500

NoRange == <<>>

\* object sizes: the boundary cases around one window, several windows, and
\* the sizes around the multi-stream threshold
Sizes ==
    {0, 1, chunk_size - 1, chunk_size, chunk_size + 1, MaxChunks * chunk_size,
     DEFAULT_MIN_PART_SIZE - 1, DEFAULT_MIN_PART_SIZE}

\* the sub-ranges a caller asks for
Ranges == {NoRange, <<0, 999>>, <<1, 2>>, <<chunk_size, 2 * chunk_size + 1>>}

Min(a, b) == IF a < b THEN a ELSE b

Span(r) == r[2] - r[1] + 1

----------------------------------------------------------------------------
(* Values *)

NoResponse ==
    [serial |-> 0,
     headers |-> [upload_timestamp |-> FALSE, content_range |-> FALSE,
                  content_length |-> 0, content_sha1 |-> <<"none">>,
                  src_last_modified |-> FALSE],
     body |-> [offset |-> 0, len |-> 0, corrupt |-> FALSE, breaks |-> FALSE]]

\* hashlib.sha1 over a body: a digest identifies the bytes it was fed
Sha1(body) == <<"sha1", body.offset, body.len, body.corrupt>>

\* the hash the service declares for the whole object
ObjectSha1(s) == Sha1([offset |-> 0, len |-> s, corrupt |-> FALSE])

FileMetadata_from_response(resp) ==
    [content_length |-> resp.headers.content_length,
     content_sha1 |-> resp.headers.content_sha1,
     file_info |-> IF resp.headers.src_last_modified
                   THEN {"src_last_modified_millis"} ELSE {},
     response |-> resp.serial]

NoMetadata ==
    [content_length |-> 0, content_sha1 |-> <<"none">>, file_info |-> {},
     response |-> 0]

NoFile == [state |-> "unopened", cursor |-> 0, opens |-> 0, writes |-> <<>>,
           misused |-> FALSE]

NoOutcome == [kind |-> "running", value |-> <<>>]

InitTransfer ==
    /\ pc = "call"
    /\ range_ = NoRange
    /\ size = 0
    /\ response = NoResponse
    /\ open_responses = {}
    /\ metadata = NoMetadata
    /\ content_length = 0
    /\ mod_time = "unresolved"
    /\ file = NoFile
    /\ chunk_num = 0
    /\ chunk_range_ = <<0, 0>>
    /\ outcome = NoOutcome
    /\ requests = <<>>
    /\ selected = <<>>
    /\ attempts = <<>>
    /\ validated = <<>>

----------------------------------------------------------------------------
(* The destination scope and the `with` blocks *)

\* make_file_context(...).__enter__
FileOpened(f) ==
    [f EXCEPT !.state = "open", !.opens = @ + 1, !.cursor = 0]

\* a destination that is not released when its block is left
FileLeftOpen(f) == f

\* make_file_context(...).__exit__: runs on every way out of the block
FileReleased(f) ==
    IF f.state = "open" THEN [f EXCEPT !.state = "released"] ELSE f

\* file.seek(offset)
FileSeek(f, offset) ==
    [f EXCEPT !.cursor = offset, !.misused = @ \/ f.state # "open"]

\* file.write(data) at the cursor
FileWrite(f, body) ==
    [f EXCEPT !.writes = Append(@, [at |-> f.cursor, body |-> body]),
              !.cursor = @ + body.len,
              !.misused = @ \/ f.state # "open"]

\* a response that stays open when its block is left
ResponseLeftOpen(open, serial) == open

\* leaving `with session.download_file_from_url(...) as response`
ResponseClosed(open, serial) == open \ {serial}

\* an exception leaving download_file_from_url: every enclosing `with` exits
Raise(exc) ==
    /\ outcome' = [kind |-> "raise", value |-> exc]
    /\ file' = FileReleased(file)
    /\ open_responses' = {}
    /\ pc' = "done"

----------------------------------------------------------------------------
(* Strategies *)

strategies == <<"Parallel", "Simple">>

\* ParallelDownloader.is_suitable: the window is at least min_part_size long
ParallelDownloader_is_suitable(md) ==
    md.content_length >= DEFAULT_MIN_PART_SIZE

SimpleDownloader_is_suitable(md) == TRUE

is_suitable(strategy, md) ==
    IF strategy = "Parallel" THEN ParallelDownloader_is_suitable(md)
    ELSE SimpleDownloader_is_suitable(md)

\* a dispatch that takes the strategy listed first without asking it
FirstListed(md) == 1

\* the for/else of lines 118-126: index of the first suitable strategy, 0 if none
FirstSuitable(md) ==
    IF \E i \in 1..Len(strategies) : is_suitable(strategies[i], md)
    THEN CHOOSE i \in 1..Len(strategies) :
            /\ is_suitable(strategies[i], md)
            /\ \A j \in 1..(i - 1) : ~is_suitable(strategies[j], md)
    ELSE 0

\* positional arguments download() takes besides self
DownloadParams(strategy) == IF strategy = "Simple" THEN 3 ELSE 4

\* positional arguments of the call strategy.download(file, response, metadata, self.session)
DownloadCallArgs == 4

\* SimpleDownloader.download: every buffer of the body written at the cursor
SimpleDownloader_download(f, resp) ==
    [file |-> IF resp.body.len > 0 THEN FileWrite(f, resp.body) ELSE f,
     bytes_read |-> resp.body.len,
     actual_sha1 |-> Sha1(resp.body)]

\* ParallelDownloader.download: the body written positionally, cursor untouched
ParallelDownloader_download(f, resp) ==
    [file |-> [f EXCEPT !.writes = Append(@, [at |-> resp.body.offset,
                                               body |-> resp.body]),
                        !.misused = @ \/ f.state # "open"],
     bytes_read |-> resp.body.len,
     actual_sha1 |-> Sha1(resp.body)]

\* response.iter_content raises while the body is streamed: the exception
\* leaves strategy.download, which no try block encloses (lines 118-126)
StreamRaises(resp) == resp.body.breaks

download(strategy, f, resp) ==
    IF strategy = "Simple" THEN SimpleDownloader_download(f, resp)
    ELSE ParallelDownloader_download(f, resp)

\* Transferer._validate_download: the exception it raises, or "ok"
_validate_download(rng, bytes_read, actual_sha1, md) ==
    IF rng = NoRange
    THEN IF bytes_read # md.content_length THEN "TruncatedOutput"
         ELSE IF md.content_sha1 # <<"none">> /\ actual_sha1 # md.content_sha1
              THEN "ChecksumMismatch"
              ELSE "ok"
    ELSE IF bytes_read # Span(rng) THEN "TruncatedOutput" ELSE "ok"

----------------------------------------------------------------------------
(* The service *)

\* the content length the first response may declare
InitialLengths(r, s) == IF r = NoRange THEN {s} ELSE {Span(r), BadLength}

\* the content length a window response may declare
WindowLengths(want) == {want, BadLength}

\* the number of bytes a window response may deliver
DeliveredLengths(want) == {want, want - 1}

----------------------------------------------------------------------------
(* download_file_from_url, one action per step *)

\* lines 69-77: the first request; only its headers are read
InitialRequest ==
    /\ pc = "call"
    /\ UNCHANGED <<pvars, svars>>
    /\ \E r \in Ranges, s \in Sizes, ts \in BOOLEAN, slm \in BOOLEAN :
        /\ r # NoRange => r[2] < s
        /\ \E len \in InitialLengths(r, s), sha \in {<<"none">>, ObjectSha1(s)} :
            LET serial == Len(requests) + 1
                resp == [serial |-> serial,
                         headers |-> [upload_timestamp |-> ts,
                                      content_range |-> r # NoRange,
                                      content_length |-> len,
                                      content_sha1 |-> sha,
                                      src_last_modified |-> slm],
                         body |-> [offset |-> IF r = NoRange THEN 0 ELSE r[1],
                                   len |-> len, corrupt |-> FALSE,
                                   breaks |-> FALSE]]
            IN  /\ range_' = r
                /\ size' = s
                /\ requests' = Append(requests, [serial |-> serial, range |-> r,
                                                 window |-> -1])
                /\ response' = resp
                /\ open_responses' = ResponseClosed(open_responses \cup {serial}, serial)
                /\ metadata' = FileMetadata_from_response(resp)
                /\ content_length' = len
    /\ pc' = "mod_time"
    /\ UNCHANGED <<mod_time, file, chunk_num, chunk_range_, outcome, selected,
                   attempts, validated>>

\* where lines 78-83 take the timestamp from, given that the header is there
ModTimeSource(md) ==
    IF "src_last_modified_millis" \in md.file_info THEN "file_info" ELSE "header"

\* lines 78-83: the default response.headers['x-bz-upload-timestamp'] is
\* evaluated before file_info.get is called
ResolveModTime ==
    /\ pc = "mod_time"
    /\ UNCHANGED <<pvars, svars>>
    /\ IF ~response.headers.upload_timestamp
       THEN /\ Raise("KeyError")
            /\ UNCHANGED mod_time
       ELSE /\ mod_time' = ModTimeSource(metadata)
            /\ pc' = "open"
            /\ UNCHANGED <<file, open_responses, outcome>>
    /\ UNCHANGED <<range_, size, response, metadata, content_length, chunk_num,
                   chunk_range_, requests, selected, attempts, validated>>

\* lines 85-96
MakeFileContext ==
    /\ pc = "open"
    /\ UNCHANGED <<pvars, svars>>
    /\ file' = FileOpened(file)
    /\ chunk_num' = 0
    /\ pc' = "loop"
    /\ UNCHANGED <<range_, size, response, open_responses, metadata,
                   content_length, mod_time, chunk_range_, outcome, requests,
                   selected, attempts, validated>>

\* lines 98-104: the window of chunk number n in an object of length len
ChunkRange(n, len) ==
    LET start == chunk_size * n
        end == chunk_size * (n + 1) - 1
    IN  <<start, IF end >= len THEN len - 1 ELSE end>>

\* line 137
NextChunkNum(n) == n + 1

\* lines 97-104 and, on break, 138
LoopHead ==
    /\ pc = "loop"
    /\ UNCHANGED <<pvars, svars>>
    /\ IF chunk_size * chunk_num >= content_length
       THEN /\ file' = FileReleased(file)
            /\ outcome' = [kind |-> "return", value |-> metadata]
            /\ pc' = "done"
            /\ UNCHANGED chunk_range_
       ELSE /\ chunk_range_' = ChunkRange(chunk_num, content_length)
            /\ pc' = "request"
            /\ UNCHANGED <<file, outcome>>
    /\ UNCHANGED <<range_, size, response, open_responses, metadata,
                   content_length, mod_time, chunk_num, requests, selected,
                   attempts, validated>>

\* the last attempt of the history, with its verdict filled in
Judged(hist, verdict) ==
    [hist EXCEPT ![Len(hist)] = [@ EXCEPT !.verdict = verdict]]

\* a loop body that does not look at the headers of the window response
HeadersUnchecked(rng, resp, md) == "ok"

\* lines 111-115: the exception the header checks raise, or "ok"
CheckHeaders(rng, resp, md) ==
    IF rng # NoRange
    THEN IF ~resp.headers.content_range THEN "UnexpectedCloudBehaviour"
         ELSE IF Span(rng) # md.content_length THEN "InvalidRange"
         ELSE "ok"
    ELSE "ok"

\* lines 105-115: the ranged request of the window and the checks of its headers
WindowRequest ==
    /\ pc = "request"
    /\ UNCHANGED <<pvars, svars>>
    /\ \E cr \in BOOLEAN, len \in WindowLengths(Span(chunk_range_)),
          n \in DeliveredLengths(Span(chunk_range_)), corrupt \in BOOLEAN,
          breaks \in BOOLEAN :
        LET serial == Len(requests) + 1
            resp == [serial |-> serial,
                     headers |-> [response.headers EXCEPT
                                     !.content_range = cr,
                                     !.content_length = len],
                     body |-> [offset |-> chunk_range_[1], len |-> n,
                               corrupt |-> corrupt, breaks |-> breaks]]
            md == FileMetadata_from_response(resp)
            check == CheckHeaders(chunk_range_, resp, md)
            att == [window |-> chunk_num, range |-> chunk_range_,
                    serial |-> serial, len |-> n, corrupt |-> corrupt,
                    breaks |-> breaks, content_range |-> cr, declared |-> len,
                    verdict |-> IF check = "ok" THEN "pending" ELSE check]
        IN  /\ requests' = Append(requests, [serial |-> serial,
                                             range |-> chunk_range_,
                                             window |-> chunk_num])
            /\ response' = resp
            /\ metadata' = md
            /\ attempts' = Append(attempts, att)
            /\ IF check # "ok"
               THEN Raise(check)
               ELSE /\ open_responses' = open_responses \cup {serial}
                    /\ pc' = "seek"
                    /\ UNCHANGED <<file, outcome>>
    /\ UNCHANGED <<range_, size, content_length, mod_time, chunk_num,
                   chunk_range_, selected, validated>>

\* line 117
Seek ==
    /\ pc = "seek"
    /\ UNCHANGED <<pvars, svars>>
    /\ file' = FileSeek(file, chunk_range_[1])
    /\ pc' = "strategy"
    /\ UNCHANGED <<range_, size, response, open_responses, metadata,
                   content_length, mod_time, chunk_num, chunk_range_, outcome,
                   requests, selected, attempts, validated>>

\* lines 118-137: dispatch, download, validation, retry or advance
InvokeStrategy ==
    /\ pc = "strategy"
    /\ UNCHANGED <<pvars, svars>>
    /\ LET i == FirstSuitable(metadata)
       IN  IF i = 0
           THEN /\ Raise("AssertionError")
                /\ attempts' = Judged(attempts, "AssertionError")
                /\ UNCHANGED <<selected, chunk_num, validated>>
           ELSE LET strategy == strategies[i]
                IN  /\ selected' = Append(selected, <<chunk_num, strategy>>)
                    /\ IF DownloadParams(strategy) # DownloadCallArgs
                       THEN /\ Raise("TypeError")
                            /\ attempts' = Judged(attempts, "TypeError")
                            /\ UNCHANGED <<chunk_num, validated>>
                       ELSE IF StreamRaises(response)
                       THEN /\ Raise("ConnectionError")
                            /\ attempts' = Judged(attempts, "ConnectionError")
                            /\ UNCHANGED <<chunk_num, validated>>
                       ELSE LET got == download(strategy, file, response)
                                verdict == _validate_download(
                                               chunk_range_, got.bytes_read,
                                               got.actual_sha1, metadata)
                            IN  /\ file' = got.file
                                /\ attempts' = Judged(attempts, verdict)
                                /\ open_responses' =
                                       ResponseClosed(open_responses, response.serial)
                                /\ pc' = "loop"
                                /\ UNCHANGED outcome
                                /\ IF verdict = "ok"
                                   THEN /\ chunk_num' = NextChunkNum(chunk_num)
                                        /\ validated' = Append(validated, chunk_num)
                                   ELSE UNCHANGED <<chunk_num, validated>>
    /\ UNCHANGED <<range_, size, response, metadata, content_length, mod_time,
                   chunk_range_, requests>>

----------------------------------------------------------------------------
(* The multi-stream strategy on one window.  The unit is one read buffer:   *)
(* the destination is a row of buffer slots, and the service sends          *)
(* Block(slot) for the slot a worker asks for.                              *)

\* the most buffers a window holds
MaxBuffers == 4

\* the most sub-range workers launched for a window
MaxWorkers == 3

Slots == 0..(2 * MaxBuffers - 1)

\* the content of the object at a slot
Block(slot) == (slot * 37 + 11) % 251

RECURSIVE DigestFrom(_, _)
DigestFrom(h, blocks) ==
    IF blocks = <<>> THEN h
    ELSE DigestFrom((h * 31 + Head(blocks)) % 65521, Tail(blocks))

\* a digest over a sequence of blocks, order-sensitive
BlockDigest(blocks) == DigestFrom(7, blocks)

RECURSIVE Concat(_, _)
Concat(seqs, order) ==
    IF order = <<>> THEN <<>>
    ELSE seqs[Head(order)] \o Concat(seqs, Tail(order))

\* the sub-range of worker i of n over a window: roughly equal parts, the
\* last one taking the remainder
SubRange(i, n, window) ==
    LET part == window.len \div n
        first == window.start + (i - 1) * part
    IN  [first |-> first,
         last |-> IF i = n THEN window.start + window.len - 1
                  ELSE first + part - 1]

SubRangeLen(i, n, window) ==
    SubRange(i, n, window).last - SubRange(i, n, window).first + 1

\* a write through the shared cursor: lands where the cursor is, moves it
CursorWrite(f, slot, data, worker) ==
    [f EXCEPT !.slots[f.cursor] = data,
              !.writers[f.cursor] = @ \cup {worker},
              !.cursor = @ + 1]

\* a positional write: lands at the given slot, the cursor is not involved
PositionalWrite(f, slot, data, worker) ==
    [f EXCEPT !.slots[slot] = data,
              !.writers[slot] = @ \cup {worker}]

\* the order in which the workers' bytes enter the combined digest
CombineOrder(n, completed) == [i \in 1..n |-> i]

NoParallelFile ==
    [cursor |-> 0, slots |-> [s \in Slots |-> -1], writers |-> [s \in Slots |-> {}]]

InitParallel ==
    /\ p_pc = "idle"
    /\ p_window = [start |-> 0, len |-> 0]
    /\ p_streams = 0
    /\ p_written = <<>>
    /\ p_file = NoParallelFile
    /\ p_completed = <<>>
    /\ p_result = <<>>

\* download() entered: the window split, one worker launched per sub-range;
\* the caller has positioned the cursor at the window's start
P_Launch ==
    /\ p_pc = "idle"
    /\ \E start \in {0, MaxBuffers}, len \in 1..MaxBuffers :
        \E n \in 1..Min(MaxWorkers, len) :
            /\ p_window' = [start |-> start, len |-> len]
            /\ p_streams' = n
            /\ p_written' = [i \in 1..n |-> <<>>]
            /\ p_file' = [NoParallelFile EXCEPT !.cursor = start]
    /\ p_pc' = "streaming"
    /\ UNCHANGED <<p_completed, p_result, tvars, svars>>

\* a worker receives its next buffer and writes it at its absolute offset
P_Write(w) ==
    /\ p_pc = "streaming"
    /\ Len(p_written[w]) < SubRangeLen(w, p_streams, p_window)
    /\ LET slot == SubRange(w, p_streams, p_window).first + Len(p_written[w])
       IN  /\ p_file' = PositionalWrite(p_file, slot, Block(slot), w)
           /\ p_written' = [p_written EXCEPT ![w] = Append(@, Block(slot))]
    /\ UNCHANGED <<p_pc, p_window, p_streams, p_completed, p_result, tvars, svars>>

\* a worker has exhausted its sub-range and reports
P_Complete(w) ==
    /\ p_pc = "streaming"
    /\ Len(p_written[w]) = SubRangeLen(w, p_streams, p_window)
    /\ \A i \in 1..Len(p_completed) : p_completed[i] # w
    /\ p_completed' = Append(p_completed, w)
    /\ UNCHANGED <<p_pc, p_window, p_streams, p_written, p_file, p_result, tvars, svars>>

\* all workers have reported: the counts added up, the bytes digested in
\* range order
P_Combine ==
    /\ p_pc = "streaming"
    /\ Len(p_completed) = p_streams
    /\ LET order == CombineOrder(p_streams, p_completed)
           count[i \in 0..p_streams] ==
               IF i = 0 THEN 0 ELSE count[i - 1] + Len(p_written[i])
       IN  p_result' = <<count[p_streams], BlockDigest(Concat(p_written, order))>>
    /\ p_pc' = "combined"
    /\ UNCHANGED <<p_window, p_streams, p_written, p_file, p_completed, tvars, svars>>

----------------------------------------------------------------------------
(* The sequential strategy on one response body.  The unit is one byte; the *)
(* buffers iter_content yields are short, where the code asks for           *)
(* chunk_size = 8192 bytes at most.                                         *)

\* the most buffers a body is delivered in
MaxBody == 3

\* the buffers iter_content may yield
Buffers == {<<0>>, <<1>>, <<0, 1>>, <<1, 0>>}

Bodies == UNION {[1..n -> Buffers] : n \in 0..MaxBody}

Offsets == 0..(2 * MaxBody + 1)

\* the buffers of a sequence, concatenated in order
Flat(buffers) == Concat(buffers, [i \in 1..Len(buffers) |-> i])

\* hashlib.sha1()
hashlib_sha1 == BlockDigest(<<>>)

\* digest.update(data)
digest_update(h, data) == DigestFrom(h, data)

\* a counter that counts buffers instead of bytes
CountBuffers(n, data) == n + 1

\* bytes_read += len(data)
CountBytes(n, data) == n + Len(data)

\* file.write(data): the bytes land at the cursor, the cursor moves past them
WriteAtCursor(f, data) ==
    [f EXCEPT !.data = [o \in Offsets |->
                           IF f.cursor <= o /\ o < f.cursor + Len(data)
                           THEN data[o - f.cursor + 1] ELSE f.data[o]],
              !.cursor = @ + Len(data),
              !.writes = @ + 1]

NoSimpleFile == [cursor |-> 0, data |-> [o \in Offsets |-> -1], writes |-> 0]

InitSimple ==
    /\ s_pc = "idle"
    /\ s_input = [body |-> <<>>, cursor |-> 0]
    /\ s_body = <<>>
    /\ s_file = NoSimpleFile
    /\ s_bytes_read = 0
    /\ s_digest = 0
    /\ s_result = <<>>

\* lines 23-25: download() entered on a response, the destination positioned
\* by the caller
S_Enter ==
    /\ s_pc = "idle"
    /\ \E body \in Bodies, cursor \in {0, 1} :
        /\ s_input' = [body |-> body, cursor |-> cursor]
        /\ s_body' = body
        /\ s_file' = [NoSimpleFile EXCEPT !.cursor = cursor]
    /\ s_digest' = hashlib_sha1
    /\ s_bytes_read' = 0
    /\ s_pc' = "streaming"
    /\ UNCHANGED <<s_result, tvars, pvars>>

\* lines 26-29: one turn of the loop over iter_content
S_Buffer ==
    /\ s_pc = "streaming"
    /\ s_body # <<>>
    /\ LET data == Head(s_body)
       IN  /\ s_file' = WriteAtCursor(s_file, data)
           /\ s_digest' = digest_update(s_digest, data)
           /\ s_bytes_read' = CountBytes(s_bytes_read, data)
    /\ s_body' = Tail(s_body)
    /\ UNCHANGED <<s_pc, s_input, s_result, tvars, pvars>>

\* line 30: the body is exhausted
S_Return ==
    /\ s_pc = "streaming"
    /\ s_body = <<>>
    /\ s_result' = <<s_bytes_read, s_digest>>
    /\ s_pc' = "returned"
    /\ UNCHANGED <<s_input, s_body, s_file, s_bytes_read, s_digest, tvars, pvars>>

----------------------------------------------------------------------------
(* Specifications *)

Init == InitTransfer /\ InitParallel /\ InitSimple

NextSimple ==
    \/ S_Enter
    \/ S_Buffer
    \/ S_Return

SpecSimple == Init /\ [][NextSimple]_vars

Next ==
    \/ InitialRequest
    \/ ResolveModTime
    \/ MakeFileContext
    \/ LoopHead
    \/ WindowRequest
    \/ Seek
    \/ InvokeStrategy

Spec == Init /\ [][Next]_vars

P_SomeWrite == \E w \in 1..p_streams : P_Write(w)

P_SomeComplete == \E w \in 1..p_streams : P_Complete(w)

NextParallel ==
    \/ P_Launch
    \/ P_SomeWrite
    \/ P_SomeComplete
    \/ P_Combine

SpecParallel == Init /\ [][NextParallel]_vars

----------------------------------------------------------------------------
(* Vocabulary of the properties *)

\* number of windows of an object of length len: ceil(len / chunk_size)
WindowsOf(len) == (len + chunk_size - 1) \div chunk_size

\* the window requests among the requests issued
WindowRequests == {i \in 1..Len(requests) : requests[i].window >= 0}

ProtocolFaults == {"UnexpectedCloudBehaviour", "InvalidRange"}

Returned == pc = "done" /\ outcome.kind = "return"

Raised(exc) == pc = "done" /\ outcome = [kind |-> "raise", value |-> exc]

\* the service answered every request as the protocol asks: the headers the
\* client reads are there and right, every body is whole and unaltered
FaithfulService ==
    /\ Len(requests) >= 1
    /\ response.headers.upload_timestamp
    /\ range_ # NoRange => content_length = Span(range_)
    /\ \A i \in 1..Len(attempts) :
        /\ attempts[i].verdict \notin ProtocolFaults
        /\ attempts[i].len = Span(attempts[i].range)
        /\ ~attempts[i].corrupt
        /\ ~attempts[i].breaks

\* a write that put bytes of the object at their own offset, unaltered
GoodWrite(w) == w.at = w.body.offset /\ ~w.body.corrupt

WriteCovers(w, lo, hi) == w.at <= lo /\ hi <= w.at + w.body.len - 1

WriteTouches(w, lo, hi) ==
    w.body.len > 0 /\ w.at <= hi /\ lo <= w.at + w.body.len - 1

\* the destination holds the object's bytes at offsets lo..hi: some good write
\* covers them and no later write put anything else there
DestHolds(lo, hi) ==
    \E i \in 1..Len(file.writes) :
        /\ GoodWrite(file.writes[i])
        /\ WriteCovers(file.writes[i], lo, hi)
        /\ \A j \in (i + 1)..Len(file.writes) :
               WriteTouches(file.writes[j], lo, hi) => GoodWrite(file.writes[j])

\* the destination holds the object's bytes at every offset of first..last,
\* window by window of the chunk grid laid over 0..(len - 1) shifted by base
DestEqualsSource(base, len) ==
    \A k \in 0..(WindowsOf(len) - 1) :
        DestHolds(base + ChunkRange(k, len)[1], base + ChunkRange(k, len)[2])

----------------------------------------------------------------------------
(* C1 *)

\* every window request of a whole-object call asks for
\* [k*W, min((k+1)*W, S) - 1] with start <= end < S
C1_RequestsWellFormed ==
    range_ = NoRange =>
        \A i \in WindowRequests :
            LET k == requests[i].window
                r == requests[i].range
            IN  /\ r = <<k * chunk_size, Min((k + 1) * chunk_size, size) - 1>>
                /\ r[1] <= r[2]
                /\ r[2] < size

\* C1: a whole-object download of an object of size S, S among 0, 1, W-1, W,
\* W+1 and several*W, issues only well-formed window requests and, the service
\* answering faithfully, ends by returning with windows 0 .. ceil(S/W)-1
\* validated once each in increasing order and the destination equal to the
\* source on [0, S).
C1_RoundTrip ==
    /\ C1_RequestsWellFormed
    /\ (pc = "done" /\ range_ = NoRange /\ FaithfulService) =>
          /\ Returned
          /\ validated = [k \in 1..WindowsOf(size) |-> k - 1]
          /\ DestEqualsSource(0, size)

----------------------------------------------------------------------------
(* C2 *)

\* the attempt was handed to the loop body and the loop body is done with it
Handled(a) == a.verdict \notin ({"pending"} \cup ProtocolFaults)

\* C2: in a whole-object download of an object whose declared hash is the
\* SHA-1 of its content, a window attempt that arrives whole but with one
\* byte altered is answered with a checksum mismatch, and once the call has
\* ended that window was retried exactly once and the call returned with
\* unaltered bytes in the destination.
C2_CorruptionRetried ==
    (/\ range_ = NoRange
     /\ metadata.content_sha1 = ObjectSha1(size)
     /\ Len(attempts) >= 1
     /\ attempts[1].corrupt
     /\ attempts[1].len = Span(attempts[1].range)
     /\ Handled(attempts[1])) =>
        /\ attempts[1].verdict = "ChecksumMismatch"
        /\ pc = "done" =>
              /\ Returned
              /\ Cardinality({i \in 1..Len(attempts) : attempts[i].window = 0}) = 2
              /\ DestEqualsSource(0, size)

----------------------------------------------------------------------------
(* C3 *)

\* C3: a window attempt that delivers fewer bytes than end - start + 1 is
\* answered with truncated output, the window index stays, and the next
\* request asks for the same range; no attempt of a window writes outside
\* the window's range.
C3_TruncationRetried ==
    /\ \A i \in 1..Len(attempts) :
          (attempts[i].len < Span(attempts[i].range) /\ Handled(attempts[i])) =>
              /\ attempts[i].verdict = "TruncatedOutput"
              /\ i < Len(attempts) =>
                    /\ attempts[i + 1].window = attempts[i].window
                    /\ attempts[i + 1].range = attempts[i].range
    /\ \A j \in 1..Len(file.writes) :
          \E i \in 1..Len(attempts) :
              /\ attempts[i].range[1] <= file.writes[j].at
              /\ file.writes[j].at + file.writes[j].body.len - 1
                    <= attempts[i].range[2]

----------------------------------------------------------------------------
(* C4 *)

\* C4: when a sub-range [a, b] was asked for and the first response declares
\* a content length other than b - a + 1, the call fails at once with
\* InvalidRange: no window request follows and nothing is validated.
C4_InvalidRangeAtOnce ==
    (/\ range_ # NoRange
     /\ pc # "call"
     /\ response.headers.upload_timestamp
     /\ \A i \in 1..Len(attempts) : attempts[i].verdict \notin ProtocolFaults
     /\ content_length # Span(range_)) =>
        /\ WindowRequests = {}
        /\ validated = <<>>
        /\ pc = "done" => Raised("InvalidRange")

----------------------------------------------------------------------------
(* C5 *)

\* C5: when a sub-range [a, b] was asked for, no window request asks for a
\* byte outside [a, b], and when the call has returned the validated windows
\* cover [a, b] exactly.
C5_WindowsCoverRange ==
    (/\ range_ # NoRange
     /\ \A i \in 1..Len(attempts) : attempts[i].verdict \notin ProtocolFaults) =>
        /\ \A i \in WindowRequests :
              /\ range_[1] <= requests[i].range[1]
              /\ requests[i].range[2] <= range_[2]
        /\ Returned =>
              /\ Len(validated) = WindowsOf(Span(range_))
              /\ DestEqualsSource(range_[1], Span(range_))

----------------------------------------------------------------------------
(* C6 *)

\* the metadata parsed from the response to the first window request
FirstWindowMetadata ==
    [content_length |-> Span(ChunkRange(0, content_length)),
     content_sha1 |-> metadata.content_sha1,
     file_info |-> metadata.file_info,
     response |-> 2]

\* C6: a download of an object with at least one window, the service
\* answering faithfully, ends by returning the metadata of the first window,
\* however many windows and retries followed.
C6_ReturnsFirstMetadata ==
    (pc = "done" /\ FaithfulService /\ content_length > 0) =>
        /\ Returned
        /\ outcome.value = FirstWindowMetadata

----------------------------------------------------------------------------
(* C7 *)

\* C7: the destination is opened at most once and only after the first
\* request has completed; it is never sought or written outside its
\* open..release span; and once the call has ended, however it ended, the
\* destination is not open: released if it was ever opened.
C7_DestinationScoped ==
    /\ file.opens <= 1
    /\ file.state # "unopened" =>
          /\ file.opens = 1
          /\ Len(requests) >= 1
          /\ 1 \notin open_responses
          /\ mod_time # "unresolved"
    /\ ~file.misused
    /\ (file.cursor # 0 \/ file.writes # <<>>) => file.state # "unopened"
    /\ pc = "done" =>
          /\ file.state # "open"
          /\ file.opens = 1 => file.state = "released"

\* an exception raised after the seek of a window left the call with the
\* destination released
C7_Witness ==
    /\ pc = "done"
    /\ outcome.kind = "raise"
    /\ outcome.value \notin (ProtocolFaults \cup {"KeyError"})
    /\ Len(selected) = 1
    /\ file.opens = 1
    /\ file.state = "released"

----------------------------------------------------------------------------
(* C8 *)

\* the metadata a well-formed response to the request of window k carries
WindowMetadata(k) ==
    [metadata EXCEPT !.content_length = Span(ChunkRange(k, content_length))]

\* C8: for an object of size min_part_size - 1 every dispatch selects Simple;
\* for an object of size min_part_size or more some window's metadata makes
\* Parallel suitable, and a dispatch for such a window selects Parallel.
C8_StrategyBySize ==
    /\ (range_ = NoRange /\ size = DEFAULT_MIN_PART_SIZE - 1) =>
          \A i \in 1..Len(selected) : selected[i][2] = "Simple"
    /\ (range_ = NoRange /\ Len(selected) >= 1 /\ size >= DEFAULT_MIN_PART_SIZE) =>
          /\ \E k \in 0..(WindowsOf(content_length) - 1) :
                ParallelDownloader_is_suitable(WindowMetadata(k))
          /\ \A i \in 1..Len(selected) :
                ParallelDownloader_is_suitable(WindowMetadata(selected[i][1]))
                    => selected[i][2] = "Parallel"

----------------------------------------------------------------------------
(* C9 *)

\* at most one response is open at any time, and every window request was
\* issued with exactly the windows before it validated, in order
C9_OneWindowAtATime ==
    /\ Cardinality(open_responses) <= 1
    /\ validated = [k \in 1..Len(validated) |-> k - 1]
    /\ chunk_num = Len(validated)
    /\ \A i \in WindowRequests : requests[i].window <= Len(validated)
    /\ \A i \in WindowRequests : \A j \in WindowRequests :
          i < j => requests[i].window <= requests[j].window

\* the window index changes only by the validation of an attempt of the
\* current window, and then by exactly one
C9_IndexStep ==
    chunk_num' # chunk_num =>
        /\ chunk_num' = chunk_num + 1
        /\ validated' = Append(validated, chunk_num)

----------------------------------------------------------------------------
(* C10 *)

\* the window's blocks in range order
WindowBlocks(window) == [i \in 1..window.len |-> Block(window.start + i - 1)]

InWindow(slot, window) ==
    window.start <= slot /\ slot <= window.start + window.len - 1

\* C10: the workers of one window write disjoint slots of the shared
\* destination and never move its cursor, and whatever the interleaving of
\* their writes and the order of their completion, the combined result is
\* the one of in-order completion: the window's blocks at their slots,
\* nothing outside the window, the window's length as byte count and the
\* digest of the window's blocks in range order.
C10_OrderIndependent ==
    /\ \A s \in Slots : Cardinality(p_file.writers[s]) <= 1
    /\ p_pc # "idle" =>
          /\ p_file.cursor = p_window.start
          /\ \A s \in Slots :
                p_file.slots[s] # -1 => InWindow(s, p_window) /\ p_file.slots[s] = Block(s)
    /\ p_pc = "combined" =>
          /\ \A s \in Slots :
                p_file.slots[s] = IF InWindow(s, p_window) THEN Block(s) ELSE -1
          /\ p_result = <<p_window.len, BlockDigest(WindowBlocks(p_window))>>

\* a window whose workers completed in reverse order has been combined
C10_Witness ==
    /\ p_pc = "combined"
    /\ p_streams = MaxWorkers
    /\ p_completed = [i \in 1..p_streams |-> p_streams + 1 - i]
    /\ p_window.len > p_streams

----------------------------------------------------------------------------
(* C11 *)

\* the response of the attempt breaks the range protocol
Faulty(a) == ~a.content_range \/ a.declared # Span(a.range)

\* C11: a window response without Content-Range raises
\* UnexpectedCloudBehaviour, one declaring a content length other than
\* end - start + 1 raises InvalidRange, and either ends the call at once:
\* the attempt is the last, no request follows it, no strategy was
\* dispatched and nothing written for it, and the error is the call's outcome.
C11_ProtocolFaultsAbort ==
    \A i \in 1..Len(attempts) :
        LET a == attempts[i]
        IN  /\ ~a.content_range => a.verdict = "UnexpectedCloudBehaviour"
            /\ (a.content_range /\ a.declared # Span(a.range)) =>
                  a.verdict = "InvalidRange"
            /\ Faulty(a) =>
                  /\ i = Len(attempts)
                  /\ requests[Len(requests)].serial = a.serial
                  /\ Len(selected) = i - 1
                  /\ Len(file.writes) <= i - 1
                  /\ Raised(a.verdict)
                  /\ open_responses = {}

\* a window response declared a wrong length and the call ended with
\* InvalidRange, nothing dispatched
C11_Witness ==
    /\ Raised("InvalidRange")
    /\ Len(attempts) = 1
    /\ attempts[1].content_range
    /\ attempts[1].declared # Span(attempts[1].range)
    /\ selected = <<>>

----------------------------------------------------------------------------
(* C12 *)

Retryable == {"TruncatedOutput", "ChecksumMismatch"}

\* C12: a window attempt whose stream fails while it is transferred is a
\* retryable failure of that attempt only: the call does not end with it,
\* the window is issued again.
C12_StreamFailureRetried ==
    \A i \in 1..Len(attempts) :
        (attempts[i].breaks /\ Handled(attempts[i])) =>
            /\ attempts[i].verdict \in Retryable
            /\ i = Len(attempts) => outcome.kind # "raise"
            /\ i < Len(attempts) =>
                  /\ attempts[i + 1].window = attempts[i].window
                  /\ attempts[i + 1].range = attempts[i].range

----------------------------------------------------------------------------
(* C13 *)

\* the attempt arrived short, its headers in order
Truncated(a) == ~Faulty(a) /\ a.len < Span(a.range)

\* C13: the call never ends with TruncatedOutput or ChecksumMismatch, and
\* against a service that truncates every attempt it never ends at all:
\* every truncated attempt is followed by another attempt of the same window.
C13_UnboundedRetry ==
    /\ ~Raised("TruncatedOutput")
    /\ ~Raised("ChecksumMismatch")
    /\ (/\ Len(attempts) >= 1
        /\ \A i \in 1..Len(attempts) : Truncated(attempts[i])) =>
          /\ pc # "done"
          /\ \A i \in 1..Len(attempts) : attempts[i].window = 0

----------------------------------------------------------------------------
(* C14 *)

\* the attempt arrived whole and unaltered, its headers in order
Clean(a) == ~Faulty(a) /\ a.len = Span(a.range) /\ ~a.corrupt /\ ~a.breaks

\* C14: without protocol faults and with failures that pass, the call ends
\* by returning, after exactly ceil(S/W) validated windows and with the
\* destination released: a call that has ended had its timestamp resolved
\* and its last attempt clean only if it returned so.
C14_Terminates ==
    (/\ pc = "done"
     /\ response.headers.upload_timestamp
     /\ \A i \in 1..Len(attempts) : ~Faulty(attempts[i])
     /\ Len(attempts) >= 1 => Clean(attempts[Len(attempts)])) =>
        /\ Returned
        /\ Len(validated) = WindowsOf(content_length)
        /\ file.state = "released"

----------------------------------------------------------------------------
(* C15 *)

\* a dispatch appends exactly one strategy, the first of the list that is
\* suitable for the window's metadata
C15_DispatchStep ==
    selected' # selected =>
        \E i \in 1..Len(strategies) :
            /\ selected' = Append(selected, <<chunk_num, strategies[i]>>)
            /\ is_suitable(strategies[i], metadata)
            /\ \A j \in 1..(i - 1) : ~is_suitable(strategies[j], metadata)

\* no call ends on the assertion, and every attempt the loop body is done
\* with was dispatched once
C15_AlwaysAStrategy ==
    /\ ~Raised("AssertionError")
    /\ \A i \in 1..Len(attempts) : attempts[i].verdict # "AssertionError"
    /\ Len(selected) =
          Cardinality({i \in 1..Len(attempts) : Handled(attempts[i])})

\* C15: dispatch is first-match over [Parallel, Simple]: for every window
\* attempt exactly one strategy is invoked, the first whose is_suitable holds,
\* and the assertion that none is suitable is never reached.
C15_FirstMatch == [](C15_AlwaysAStrategy) /\ [][C15_DispatchStep]_vars

\* Parallel was asked first and declined, Simple was dispatched
C15_Witness ==
    /\ Len(selected) = 1
    /\ selected[1] = <<0, "Simple">>
    /\ ~ParallelDownloader_is_suitable(metadata)
    /\ size >= DEFAULT_MIN_PART_SIZE

----------------------------------------------------------------------------
(* C16 *)

\* C16: whichever strategy is dispatched, the call made on it is accepted
\* and its result goes to validation: no attempt ends with an error of the
\* invocation itself.
C16_Interchangeable ==
    /\ ~Raised("TypeError")
    /\ \A i \in 1..Len(attempts) :
          (Clean(attempts[i]) /\ Handled(attempts[i])) => attempts[i].verdict = "ok"

----------------------------------------------------------------------------
(* C18 *)

\* C18: once the first response is in, the timestamp is the custom-info
\* field whenever the response carries it, with or without the
\* upload-timestamp header, and the header only when the field is absent.
C18_LastModified ==
    pc \notin {"call", "mod_time"} =>
        /\ "src_last_modified_millis" \in metadata.file_info =>
              /\ mod_time = "file_info"
              /\ ~Raised("KeyError")
        /\ ("src_last_modified_millis" \notin metadata.file_info
              /\ response.headers.upload_timestamp) => mod_time = "header"

----------------------------------------------------------------------------
(* C19 *)

\* C19: when the first response declares content length 0 and a timestamp
\* can be resolved from it, the call issues that one request only, opens and
\* releases the destination without seek or write, dispatches no strategy
\* and returns the metadata of the first response.
C19_EmptyObject ==
    (/\ pc # "call"
     /\ content_length = 0
     /\ \/ response.headers.upload_timestamp
        \/ "src_last_modified_millis" \in metadata.file_info) =>
        /\ Len(requests) = 1
        /\ selected = <<>>
        /\ file.cursor = 0 /\ file.writes = <<>>
        /\ pc = "done" =>
              /\ Returned
              /\ outcome.value = FileMetadata_from_response(response)
              /\ outcome.value.response = 1
              /\ file.opens = 1
              /\ file.state = "released"

----------------------------------------------------------------------------
(* C17 *)

\* the buffers the loop has been through so far
Consumed == SubSeq(s_input.body, 1, Len(s_input.body) - Len(s_body))

\* C17: SimpleDownloader.download writes every buffer in arrival order at
\* the cursor; after each buffer the counter is the number of bytes written
\* so far and the digest covers exactly those bytes; at exhaustion it returns
\* the total and the digest of the concatenation of the buffers; an empty
\* body gives 0 and the digest of the empty string, with no write.
C17_SimpleDownload ==
    s_pc # "idle" =>
        LET written == Flat(Consumed)
            start == s_input.cursor
        IN  /\ s_bytes_read = Len(written)
            /\ s_digest = BlockDigest(written)
            /\ s_file.writes = Len(Consumed)
            /\ s_file.cursor = start + Len(written)
            /\ \A o \in Offsets :
                  s_file.data[o] =
                      IF start <= o /\ o < start + Len(written)
                      THEN written[o - start + 1] ELSE -1
            /\ s_pc = "returned" =>
                  /\ s_body = <<>>
                  /\ s_result = <<Len(Flat(s_input.body)),
                                  BlockDigest(Flat(s_input.body))>>
                  /\ s_input.body = <<>> =>
                        /\ s_result = <<0, BlockDigest(<<>>)>>
                        /\ s_file.writes = 0

\* a body of several buffers of different lengths has been written and the
\* pair returned
C17_Witness ==
    /\ s_pc = "returned"
    /\ Len(s_input.body) >= 2
    /\ s_input.body[1] = <<0, 1>>
    /\ s_input.body[2] = <<1>>
    /\ s_result[1] > Len(s_input.body)

====
